---- MODULE Spec2Model ----
(***************************************************************************)
(* Generation request orchestration of diffusion-demo.                     *)
(*                                                                         *)
(* Client side (Session Manager): the Home page (generateImage) and the    *)
(* ImageGenerator component (handleGenerate, history onClick, useEffect    *)
(* cleanup).  The repository holds two versions of each:                   *)
(*   page       "part_000"  generateImage with the 504 retry loop          *)
(*              "app_page"  src/app/page.tsx, one fetch, no retry          *)
(*   component  "ImageGenerator"  src/components/ImageGenerator.tsx, with  *)
(*                                the generatedImages history              *)
(*              "part_001"  the component without history (part_001 and    *)
(*                          part_002 have the same logic)                  *)
(* Server side (route handler POST): see the second half of the module.    *)
(***************************************************************************)
EXTENDS Integers, Sequences, FiniteSets, TLC

\* ---------------------------------------------------------------- bounds
\* Object URLs that a session may create (successful generations).
MaxImages == 3
\* Length up to which the requests of one generate action are logged.
MaxLog == 4
\* revokeObjectURL calls counted per handle (the count saturates here).
MaxRevoke == 2
\* Date.now() readings told apart (the clock saturates here).
MaxClock == 3
\* Images generated in the runs that move every control of the form.
MaxFormImages == 2

\* ------------------------------------------------------ program constants
\* part_000: MAX_RETRIES, RETRY_DELAY of generateImage
MAX_RETRIES == 3
RETRY_DELAY == 1000
\* README.md: maxRetries = 3 of makeRunPodRequest, sleep(3000)
maxRetries_Four == 3 + 1
maxRetries == 3
BACKEND_RETRY_DELAY == 3000
\* route.ts: requestSchema, .default(27)
DEFAULT_27 == 27

TimeoutMessage == "Gateway Timeout: Server took too long to respond after multiple retries"
DefaultMessage == "Failed to generate image"
\* error.error of a JSON error body, as the server wrote it
ServerMessage == "server error message"
\* message of the TypeError a rejected fetch carries
FetchFailedMessage == "fetch failed"
\* message of the SyntaxError response.json() throws on a body that is not JSON
JsonParseMessage == "Unexpected token in JSON"

NoError == "null"

PageVersions == {"part_000", "app_page"}
ComponentVersions == {"ImageGenerator", "part_001"}

\* The prompt textarea's contents; "" is the initial, empty prompt.
Prompts == {"", "cat"}
\* Positions of the guidance scale slider (min 0, max 100).
GuidanceScales == {0, 100}
\* Positions of the seed slider (min 0, max 1000).
Seeds == {0, 1000}
\* The options of the aspect ratio select, and the first and the last of
\* them as the ones chosen.
AspectRatioOptions ==
    {"16:9", "1:1", "21:9", "2:3", "3:2", "4:5", "5:4", "9:16", "9:21"}
AspectRatios == {"16:9", "9:21"}
\* Positions of the inference steps slider (min 1, max 100).
InferenceSteps == {4, 100}

\* What one fetch('/api/generate') can settle to.  status 0: the promise
\* rejected (transport failure), no Response object was assigned.
ErrorBodies == {"json_error", "json_noerror", "not_json"}
FetchOutcomes ==
    {[status |-> 200, body |-> "image"], [status |-> 0, body |-> "none"]}
    \cup {[status |-> s, body |-> b] : s \in {504, 500}, b \in ErrorBodies}

Handles == 1..MaxImages

VARIABLES
    page,             \* which generateImage the session runs
    component,        \* which ImageGenerator the session runs
    mounted,          \* the components are mounted (session alive)
    settings,         \* ImageGenerator state: the form
    imageUrl,         \* ImageGenerator state: displayed handle, 0 = null
    generatedImages,  \* ImageGenerator state: history, newest first
    loading,          \* Home state
    error,            \* Home state
    pc,               \* position of the running generateImage: idle / fetch / sleep
    sent,             \* the settings handleGenerate passed to onGenerate
    attempts,         \* generateImage local: attempts
    response,         \* generateImage local: status of `response`, 0 = undefined
    created,          \* number of URL.createObjectURL calls so far
    revokeCount,      \* per handle, number of URL.revokeObjectURL calls
    requestLog,       \* statuses of the fetches of the current action, in order
    requests,         \* fetches issued by the current action
    waits,            \* the delays the current action slept, in order
    lastResult,       \* how the last completed action ended: none / success / failed
    disturbed,        \* an action failed, a record was selected, or unmount came mid-flight
    revokedNow,       \* the URLs the last step passed to URL.revokeObjectURL, in order
    fetchId,          \* the pending fetch promise, modulo 2 (each fetch is a new one)
    now,              \* what Date.now() returns
    bodiesSent        \* the bodies of the fetches of the current action, in order

clientVars == <<page, component, mounted, settings, imageUrl, generatedImages, loading,
                error, pc, sent, attempts, response, created, revokeCount, requestLog,
                requests, waits, lastResult, disturbed, revokedNow, fetchId, now,
                bodiesSent>>

VARIABLES
    route,            \* which route handler serves the request
    srvPc,            \* position of POST: idle / call / sleep / done
    body,             \* the request body POST received
    validatedData,    \* requestSchema.parse(body)
    attempt,          \* makeRunPodRequest local: attempt
    lastError,        \* makeRunPodRequest local: lastError
    backendCalls,     \* fetches of the backend issued for this request
    backendWaits,     \* the delays slept for this request, in order
    backendLog,       \* what the backend fetches settled to, in order
    httpResponse,     \* the response POST returned
    parked,           \* the same locals of the other request being handled
    currentRequest    \* which of the two requests the variables above belong to

serverVars == <<route, srvPc, body, validatedData, attempt, lastError, backendCalls,
                backendWaits, backendLog, httpResponse, parked,
                currentRequest>>

vars == <<clientVars, serverVars>>

Min(a, b) == IF a < b THEN a ELSE b

Occurrences(seq, x) == Cardinality({i \in DOMAIN seq : seq[i] = x})

\* The counts after URL.revokeObjectURL was called on each element of urls.
RevokeAll(counts, urls) ==
    [h \in Handles |-> Min(counts[h] + Occurrences(urls, h), MaxRevoke)]

\* useState<GenerationSettings>({...}): the form of the first render
InitialSettings ==
    [prompt |-> "", aspectRatio |-> "16:9", guidanceScale |-> 0,
     numInferenceSteps |-> 4, seed |-> 0, accept |-> "image/jpeg"]

\* The session as the first render leaves it.
ClientStart ==
    /\ mounted = TRUE
    /\ settings = InitialSettings
    /\ imageUrl = 0
    /\ generatedImages = <<>>
    /\ loading = FALSE
    /\ error = NoError
    /\ pc = "idle"
    /\ sent = InitialSettings
    /\ attempts = 0
    /\ response = 0
    /\ created = 0
    /\ revokeCount = [h \in Handles |-> 0]
    /\ requestLog = <<>>
    /\ requests = 0
    /\ waits = <<>>
    /\ lastResult = "none"
    /\ disturbed = FALSE
    /\ revokedNow = <<>>
    /\ fetchId = 0
    /\ now = 0
    /\ bodiesSent = <<>>

\* A JSON value of a request body field: undefined (absent), a string or a
\* number.
Undefined == [t |-> "undefined", s |-> "", n |-> 0]
Str(x) == [t |-> "string", s |-> x, n |-> 0]
Num(x) == [t |-> "number", s |-> "", n |-> x]

\* A body request.json() cannot parse.
NoBody == [json |-> FALSE, prompt |-> Undefined, num_inference_steps |-> Undefined,
           guidance_scale |-> Undefined, aspect_ratio |-> Undefined,
           accept |-> Undefined]
NoData == [prompt |-> "", num_inference_steps |-> 0, guidance_scale |-> 0,
           aspect_ratio |-> ""]
NoResponse == [status |-> 0, error |-> "none", details |-> {}, body |-> "none",
               cacheControl |-> "none", contentType |-> "none"]
NoLastError == [kind |-> "undefined", msg |-> "undefined", at |-> 0]

\* The locals of an invocation of POST that has not started.
IdleHandler ==
    [srvPc |-> "idle", body |-> NoBody, validatedData |-> NoData, attempt |-> 0,
     lastError |-> NoLastError, backendCalls |-> 0, backendWaits |-> <<>>,
     backendLog |-> <<>>, httpResponse |-> NoResponse]

\* The route handler before a request arrives.
ServerStart ==
    /\ srvPc = "idle"
    /\ body = NoBody
    /\ validatedData = NoData
    /\ attempt = 0
    /\ lastError = NoLastError
    /\ backendCalls = 0
    /\ backendWaits = <<>>
    /\ backendLog = <<>>
    /\ httpResponse = NoResponse
    /\ parked = IdleHandler
    /\ currentRequest = 1

Init ==
    /\ page \in PageVersions
    /\ component \in ComponentVersions
    /\ ClientStart
    /\ route = "README"
    /\ ServerStart

\* ------------------------------------------------------------ ImageGenerator
\* handleGenerate's first statement: the component without history revokes
\* the displayed URL (`if (imageUrl)`) before calling onGenerate; the
\* component with history revokes nothing there.  The URLs revoked, in order.
RevokeOnGenerate_None(c, url) == <<>>
RevokeOnGenerate(c, url) ==
    IF c = "part_001" /\ url # 0 THEN <<url>> ELSE <<>>

\* The generatedImages value the unmount cleanup iterates over.  The effect
\* has the dependency list [], so its cleanup is the closure of the first
\* render, where generatedImages is the initial useState value [].
CleanupImages(images) == <<>>

\* The cleanup a change of imageUrl or the unmount runs in the component
\* without history (`if (imageUrl)`), and the unmount cleanup of the
\* component with history (forEach over the closure's generatedImages).
RevokeOnCleanup(c, url, images) ==
    IF c = "part_001"
    THEN (IF url # 0 THEN <<url>> ELSE <<>>)
    ELSE [i \in DOMAIN CleanupImages(images) |-> CleanupImages(images)[i].url]

\* The state setters of a component do nothing once it is unmounted.
SetState(old, new) == IF mounted THEN new ELSE old

\* ------------------------------------------------------------ generateImage
\* The Error message built from a non-ok response: `await response.json()`
\* then `error.error || 'Failed to generate image'`.
BodyMessage(b) ==
    CASE b = "json_error" -> ServerMessage
      [] b = "json_noerror" -> DefaultMessage
      [] OTHER -> JsonParseMessage

\* Inner catch of the retry loop: `error instanceof Error &&
\* response?.status !== 504` rethrows; anything else falls back to the loop.
\* status is what `response` holds, thrownBy the fetch that threw (0: the
\* fetch itself rejected and assigned nothing).
InnerCatchRethrows(status, thrownBy) == status # 504

\* `if (attempts < MAX_RETRIES)` after `attempts++` on a 504, and the
\* `while (attempts < MAX_RETRIES)` loop condition.
AttemptsRemain_Always(n) == n <= MAX_RETRIES
AttemptsRemain(n) == n < MAX_RETRIES

LogAppend(log, s) == IF Len(log) < MaxLog THEN Append(log, s) ELSE log

\* JSON.stringify({...}): the body of fetch('/api/generate'), built from the
\* settings parameter of generateImage.
ClientRequestBody_WithSeed(s) ==
    [prompt |-> s.prompt,
     num_inference_steps |-> s.numInferenceSteps,
     guidance_scale |-> s.guidanceScale,
     aspect_ratio |-> s.aspectRatio,
     accept |-> s.accept,
     seed |-> s.seed]
ClientRequestBody(s) ==
    [prompt |-> s.prompt,
     num_inference_steps |-> s.numInferenceSteps,
     guidance_scale |-> s.guidanceScale,
     aspect_ratio |-> s.aspectRatio,
     accept |-> s.accept]

\* The `settings` a loop iteration of generateImage reads: its parameter,
\* not the form of the component.
RequestSettings_Form(param, form) == form
RequestSettings(param, form) == param

\* The `settings` handleGenerate reads after `await onGenerate(settings)`:
\* the constant of the render whose button was clicked, not the form of the
\* current render.
HandlerSettings_Current(clicked, current) == current
HandlerSettings(clicked, current) == clicked

\* setGeneratedImages(prev => [newImage, ...prev])
Prepend_Dropped(newImage, prev) == prev
Prepend_AtEnd(newImage, prev) == Append(prev, newImage)
Prepend(newImage, prev) == <<newImage>> \o prev

\* disabled={isLoading || !settings.prompt} of the Generate button
GenerateDisabled_EmptyPrompt(isLoading, prompt) == prompt = ""
GenerateDisabled_Loading(isLoading, prompt) == isLoading
GenerateDisabled(isLoading, prompt) == isLoading \/ prompt = ""

\* Date.now() after an awaited fetch or timer has taken its time
Later(t) == Min(t + 1, MaxClock)

\* Outer catch and finally of generateImage, then the catch of
\* handleGenerate: the message becomes the UI error, nothing else changes.
Fail_Silent(msg) ==
    /\ pc' = "idle"
    /\ loading' = SetState(loading, FALSE)
    /\ lastResult' = "failed"
    /\ disturbed' = TRUE
    /\ revokedNow' = <<>>
    /\ UNCHANGED <<error, imageUrl, generatedImages, created, revokeCount, requests,
                   waits, fetchId, bodiesSent>>
Fail_DropsImage(msg) ==
    /\ pc' = "idle"
    /\ error' = SetState(error, msg)
    /\ loading' = SetState(loading, FALSE)
    /\ imageUrl' = SetState(imageUrl, 0)
    /\ lastResult' = "failed"
    /\ disturbed' = TRUE
    /\ revokedNow' = <<>>
    /\ UNCHANGED <<generatedImages, created, revokeCount, requests, waits, fetchId,
                   bodiesSent>>
Fail(msg) ==
    /\ pc' = "idle"
    /\ error' = SetState(error, msg)
    /\ loading' = SetState(loading, FALSE)
    /\ lastResult' = "failed"
    /\ disturbed' = TRUE
    /\ revokedNow' = <<>>
    /\ UNCHANGED <<imageUrl, generatedImages, created, revokeCount, requests, waits,
                   fetchId, bodiesSent>>

\* URL.createObjectURL(imageBlob) returned, finally, and the rest of
\* handleGenerate after the await.
Succeed ==
    LET h == created + 1
        closure == HandlerSettings(sent, settings)
        newImage == [url |-> h, prompt |-> closure.prompt, timestamp |-> now',
                     settings |-> closure]
        \* useEffect(..., [imageUrl]): the cleanup of the previous render
        \* runs when imageUrl changes
        cleaned == IF component = "part_001" /\ mounted
                   THEN RevokeOnCleanup(component, imageUrl, generatedImages)
                   ELSE <<>>
    IN  /\ pc' = "idle"
        /\ created' = h
        /\ loading' = SetState(loading, FALSE)
        /\ lastResult' = "success"
        /\ imageUrl' = SetState(imageUrl, h)
        /\ generatedImages' =
              IF component = "ImageGenerator"
              THEN SetState(generatedImages, Prepend(newImage, generatedImages))
              ELSE generatedImages
        /\ revokedNow' = cleaned
        /\ revokeCount' = RevokeAll(revokeCount, cleaned)
        /\ UNCHANGED <<error, requests, waits, disturbed, fetchId, bodiesSent>>

\* The next iteration of the while loop calls fetch again.
FetchAgain ==
    /\ pc' = "fetch"
    /\ requests' = Min(requests + 1, MaxLog)
    /\ fetchId' = 1 - fetchId
    /\ bodiesSent' =
          LogAppend(bodiesSent, ClientRequestBody(RequestSettings(sent, settings)))
    /\ revokedNow' = <<>>
    /\ UNCHANGED <<imageUrl, generatedImages, created, revokeCount, loading, error,
                   waits, lastResult, disturbed>>

\* Back at the loop condition after the inner catch swallowed an error, or
\* after `continue`.
LoopOrTimeout(n) ==
    IF AttemptsRemain(n) THEN FetchAgain ELSE Fail(TimeoutMessage)

\* `await sleep(RETRY_DELAY); continue;` after a 504 with attempts left.
SleepThenRetry_NoDelay == FetchAgain
SleepThenRetry ==
    /\ pc' = "sleep"
    /\ waits' = Append(waits, RETRY_DELAY)
    /\ revokedNow' = <<>>
    /\ UNCHANGED <<imageUrl, generatedImages, created, revokeCount, loading, error,
                   requests, lastResult, disturbed, fetchId, bodiesSent>>

\* Click on the Generate button (disabled={isLoading || !settings.prompt}):
\* handleGenerate up to `await onGenerate(settings)`, which runs
\* generateImage up to its first `await fetch`.
HandleGenerate ==
    /\ mounted
    /\ ~GenerateDisabled(loading, settings.prompt)
    /\ created < MaxImages
    /\ revokedNow' = RevokeOnGenerate(component, imageUrl)
    /\ revokeCount' = RevokeAll(revokeCount, revokedNow')
    /\ loading' = TRUE
    /\ error' = NoError
    /\ sent' = settings
    /\ attempts' = 0
    /\ response' = 0
    /\ pc' = "fetch"
    /\ requests' = 1
    /\ fetchId' = 1 - fetchId
    /\ requestLog' = <<>>
    /\ waits' = <<>>
    /\ bodiesSent' = <<ClientRequestBody(settings)>>
    /\ UNCHANGED serverVars
    /\ UNCHANGED <<page, component, mounted, settings, imageUrl, generatedImages,
                   created, lastResult, disturbed, now>>

\* The awaited fetch settles; generateImage of part_000 runs to its next
\* await (sleep or fetch) or to its end.
FetchSettledRetry(o) ==
    /\ pc = "fetch"
    /\ page = "part_000"
    /\ requestLog' = LogAppend(requestLog, o.status)
    /\ response' = IF o.status = 0 THEN response ELSE o.status
    /\ now' = Later(now)
    /\ UNCHANGED serverVars
    /\ UNCHANGED <<page, component, mounted, settings, sent>>
    /\ CASE o.status = 0 ->
              /\ attempts' = attempts
              /\ IF InnerCatchRethrows(response, 0)
                 THEN Fail(FetchFailedMessage)
                 ELSE LoopOrTimeout(attempts)
         [] o.status = 504 ->
              /\ attempts' = attempts + 1
              /\ IF AttemptsRemain(attempts + 1)
                 THEN SleepThenRetry
                 ELSE IF InnerCatchRethrows(504, 504)
                      THEN Fail(TimeoutMessage)
                      ELSE LoopOrTimeout(attempts + 1)
         [] o.status = 200 ->
              /\ attempts' = attempts
              /\ Succeed
         [] OTHER ->
              /\ attempts' = attempts
              /\ IF InnerCatchRethrows(o.status, o.status)
                 THEN Fail(BodyMessage(o.body))
                 ELSE LoopOrTimeout(attempts)

\* The awaited fetch settles in generateImage of src/app/page.tsx.
FetchSettledPlain(o) ==
    /\ pc = "fetch"
    /\ page = "app_page"
    /\ requestLog' = LogAppend(requestLog, o.status)
    /\ response' = IF o.status = 0 THEN response ELSE o.status
    /\ attempts' = attempts
    /\ now' = Later(now)
    /\ UNCHANGED serverVars
    /\ UNCHANGED <<page, component, mounted, settings, sent>>
    /\ CASE o.status = 0 -> Fail(FetchFailedMessage)
         [] o.status = 200 -> Succeed
         [] OTHER -> Fail(BodyMessage(o.body))

FetchSettled == \E o \in FetchOutcomes : FetchSettledRetry(o) \/ FetchSettledPlain(o)

\* sleep(RETRY_DELAY) resolves; `continue` re-enters the loop.
SleepElapsed ==
    /\ pc = "sleep"
    /\ now' = Later(now)
    /\ LoopOrTimeout(attempts)
    /\ UNCHANGED serverVars
    /\ UNCHANGED <<page, component, mounted, settings, sent, attempts, response,
                   requestLog>>

\* Click on a history card: setImageUrl(img.url); setSettings(img.settings).
SelectHistory_Revoking(i) ==
    /\ mounted
    /\ component = "ImageGenerator"
    /\ i \in DOMAIN generatedImages
    /\ imageUrl' = generatedImages[i].url
    /\ settings' = generatedImages[i].settings
    /\ disturbed' = TRUE
    /\ revokedNow' = (IF imageUrl # 0 THEN <<imageUrl>> ELSE <<>>)
    /\ revokeCount' = RevokeAll(revokeCount, revokedNow')
    /\ UNCHANGED serverVars
    /\ UNCHANGED <<page, component, mounted, generatedImages, loading, error, pc, sent,
                   attempts, response, created, requestLog, requests, waits,
                   lastResult, fetchId, now, bodiesSent>>
SelectHistory(i) ==
    /\ mounted
    /\ component = "ImageGenerator"
    /\ i \in DOMAIN generatedImages
    /\ imageUrl' = generatedImages[i].url
    /\ settings' = generatedImages[i].settings
    /\ disturbed' = TRUE
    /\ revokedNow' = <<>>
    /\ UNCHANGED serverVars
    /\ UNCHANGED <<page, component, mounted, generatedImages, loading, error, pc, sent,
                   attempts, response, created, revokeCount, requestLog, requests,
                   waits, lastResult, fetchId, now, bodiesSent>>

\* Typing in the prompt textarea (disabled={isLoading}).
EditPrompt(p) ==
    /\ mounted
    /\ ~loading
    /\ p # settings.prompt
    /\ settings' = [settings EXCEPT !.prompt = p]
    /\ revokedNow' = <<>>
    /\ UNCHANGED serverVars
    /\ UNCHANGED <<page, component, mounted, imageUrl, generatedImages, loading, error,
                   pc, sent, attempts, response, created, revokeCount, requestLog,
                   requests, waits, lastResult, disturbed, fetchId, now, bodiesSent>>

\* Moving the guidance scale slider, which is never disabled.
EditGuidanceScale(v) ==
    /\ mounted
    /\ v # settings.guidanceScale
    /\ settings' = [settings EXCEPT !.guidanceScale = v]
    /\ revokedNow' = <<>>
    /\ UNCHANGED serverVars
    /\ UNCHANGED <<page, component, mounted, imageUrl, generatedImages, loading, error,
                   pc, sent, attempts, response, created, revokeCount, requestLog,
                   requests, waits, lastResult, disturbed, fetchId, now, bodiesSent>>

\* Moving the seed slider, which is never disabled.
EditSeed(v) ==
    /\ mounted
    /\ v # settings.seed
    /\ settings' = [settings EXCEPT !.seed = v]
    /\ revokedNow' = <<>>
    /\ UNCHANGED serverVars
    /\ UNCHANGED <<page, component, mounted, imageUrl, generatedImages, loading, error,
                   pc, sent, attempts, response, created, revokeCount, requestLog,
                   requests, waits, lastResult, disturbed, fetchId, now, bodiesSent>>

\* Choosing an option of the aspect ratio select, which is never disabled.
EditAspectRatio(v) ==
    /\ mounted
    /\ v # settings.aspectRatio
    /\ settings' = [settings EXCEPT !.aspectRatio = v]
    /\ revokedNow' = <<>>
    /\ UNCHANGED serverVars
    /\ UNCHANGED <<page, component, mounted, imageUrl, generatedImages, loading, error,
                   pc, sent, attempts, response, created, revokeCount, requestLog,
                   requests, waits, lastResult, disturbed, fetchId, now, bodiesSent>>

\* Moving the inference steps slider, which is never disabled.
EditInferenceSteps(v) ==
    /\ mounted
    /\ v # settings.numInferenceSteps
    /\ settings' = [settings EXCEPT !.numInferenceSteps = v]
    /\ revokedNow' = <<>>
    /\ UNCHANGED serverVars
    /\ UNCHANGED <<page, component, mounted, imageUrl, generatedImages, loading, error,
                   pc, sent, attempts, response, created, revokeCount, requestLog,
                   requests, waits, lastResult, disturbed, fetchId, now, bodiesSent>>

\* Session teardown: the components unmount and the effect cleanups run.
Unmount ==
    /\ mounted
    /\ mounted' = FALSE
    /\ revokedNow' = RevokeOnCleanup(component, imageUrl, generatedImages)
    /\ revokeCount' = RevokeAll(revokeCount, revokedNow')
    /\ disturbed' = (disturbed \/ pc # "idle")
    /\ UNCHANGED serverVars
    /\ UNCHANGED <<page, component, settings, imageUrl, generatedImages, loading, error,
                   pc, sent, attempts, response, created, requestLog, requests, waits,
                   lastResult, fetchId, now, bodiesSent>>

Next ==
    \/ HandleGenerate
    \/ FetchSettled
    \/ SleepElapsed
    \/ \E i \in 1..MaxImages : SelectHistory(i)
    \/ \E p \in Prompts : EditPrompt(p)
    \/ \E v \in GuidanceScales : EditGuidanceScale(v)
    \/ Unmount

Spec == Init /\ [][Next]_vars

\* Every awaited promise settles: a fetch resolves or rejects, a timer fires.
FairSpec == Spec /\ WF_vars(FetchSettled) /\ WF_vars(SleepElapsed)

\* The session with the seed slider as the control that is moved.
SeedNext ==
    \/ HandleGenerate
    \/ FetchSettled
    \/ SleepElapsed
    \/ \E i \in 1..MaxImages : SelectHistory(i)
    \/ \E p \in Prompts : EditPrompt(p)
    \/ \E v \in Seeds : EditSeed(v)
    \/ Unmount

SeedSpec == Init /\ [][SeedNext]_vars

\* The session of src/app/page.tsx and the component with history, with
\* every control of the form that goes into the request body.
FormInit ==
    /\ page = "app_page"
    /\ component = "ImageGenerator"
    /\ ClientStart
    /\ route = "README"
    /\ ServerStart

FormNext ==
    \/ (created < MaxFormImages /\ HandleGenerate)
    \/ \E o \in FetchOutcomes : FetchSettledPlain(o)
    \/ \E i \in 1..MaxImages : SelectHistory(i)
    \/ \E p \in Prompts : EditPrompt(p)
    \/ \E v \in GuidanceScales : EditGuidanceScale(v)
    \/ \E v \in AspectRatios : EditAspectRatio(v)
    \/ \E v \in InferenceSteps : EditInferenceSteps(v)

FormSpec == FormInit /\ [][FormNext]_vars


\* =============================================================== route handler
RouteVersions == {"README", "route_ts"}

PromptValues == {Undefined, Str(""), Str("cat"), Num(7)}
StepValues == {Undefined, Num(-1), Num(4), Num(150)}
GuidanceValues == {Undefined, Num(-1), Num(0), Num(100), Num(101), Num(150)}
AspectValues == {Undefined, Str(""), Str("16:9")}
\* accept, a key requestSchema of route.ts does not declare
AcceptValues == {Undefined, Str("image/png"), Str("image/gif")}

RequestBodies ==
    {NoBody} \cup
    {[json |-> TRUE, prompt |-> p, num_inference_steps |-> st, guidance_scale |-> g,
      aspect_ratio |-> a, accept |-> ac] :
        p \in PromptValues, st \in StepValues, g \in GuidanceValues, a \in AspectValues,
        ac \in AcceptValues}

\* What one fetch of the backend can settle to.  status 0: the fetch threw.
BackendOutcomes ==
    {[status |-> 0, body |-> "none"]}
    \cup {[status |-> st, body |-> b] :
            st \in {500, 429}, b \in {"json_message", "json_nomessage", "not_json"}}
    \cup {[status |-> 200, body |-> b] :
            b \in {"envelope", "envelope_bad_base64", "envelope_no_output", "not_json"}}

\* The body request.json() returns for a body the client built with
\* JSON.stringify: strings stay strings, numbers stay numbers.
ReceivedBody(b) ==
    [json |-> TRUE, prompt |-> Str(b.prompt),
     num_inference_steps |-> Num(b.num_inference_steps),
     guidance_scale |-> Num(b.guidance_scale),
     aspect_ratio |-> Str(b.aspect_ratio), accept |-> Str(b.accept)]

\* requestSchema: z.string().min(1)
StringMin1_AnyString(v) == v.t = "string"
StringMin1(v) == v.t = "string" /\ v.s # ""
\* requestSchema: z.number().min(0).max(100).optional()
OptionalNumber0To100_AnyNumber(v) == v.t = "undefined" \/ v.t = "number"
OptionalNumber0To100(v) ==
    v.t = "undefined" \/ (v.t = "number" /\ v.n >= 0 /\ v.n <= 100)
\* requestSchema: .default(27)
WithDefault_Zero(v) == IF v.t = "undefined" THEN 0 ELSE v.n
WithDefault(v) == IF v.t = "undefined" THEN DEFAULT_27 ELSE v.n

\* error.issues of the ZodError requestSchema.parse throws: the fields at fault
Issues(b) ==
    {f \in {"prompt"} : ~StringMin1(b.prompt)}
    \cup {f \in {"num_inference_steps"} : ~OptionalNumber0To100(b.num_inference_steps)}
    \cup {f \in {"guidance_scale"} : ~OptionalNumber0To100(b.guidance_scale)}
    \cup {f \in {"aspect_ratio"} : ~StringMin1(b.aspect_ratio)}

\* requestSchema.parse(body) when it does not throw; z.object drops the keys
\* the schema does not declare
Parse(b) ==
    [prompt |-> b.prompt.s,
     num_inference_steps |-> WithDefault(b.num_inference_steps),
     guidance_scale |-> WithDefault(b.guidance_scale),
     aspect_ratio |-> b.aspect_ratio.s]

\* JSON.stringify({input: {...}}): the body of the fetch to the backend
BackendRequestBody(v) ==
    [input |-> [prompt |-> v.prompt,
                num_inference_steps |-> v.num_inference_steps,
                guidance_scale |-> v.guidance_scale,
                aspect_ratio |-> v.aspect_ratio]]

\* The backend replied with a success status and a body response.json() parses.
BackendReturned(o) == o.status = 200 /\ o.body # "not_json"

\* The value the catch or the !response.ok branch puts in lastError on the
\* attempt numbered at (from 1): the thrown error, or the parsed error body.
ErrorOf(o, at) ==
    CASE o.status = 0 -> [kind |-> "Error", msg |-> "fetch failed", at |-> at]
      [] o.body = "not_json" -> [kind |-> "Error", msg |-> JsonParseMessage, at |-> at]
      [] o.body = "json_message" -> [kind |-> "body", msg |-> "backend message", at |-> at]
      [] OTHER -> [kind |-> "body", msg |-> "undefined", at |-> at]

\* new Error(error.message || 'Failed to generate image')
ThrownFor_Generic(e) == [kind |-> "Error", msg |-> DefaultMessage, at |-> e.at]
ThrownFor(e) ==
    IF e.kind = "body"
    THEN [kind |-> "Error",
          msg |-> (IF e.msg = "undefined" THEN DefaultMessage ELSE e.msg),
          at |-> e.at]
    ELSE e

\* POST's catch: a ZodError becomes 400 with the issues, anything else 500
\* with the generic message.
Respond400(issues) ==
    [status |-> 400, error |-> "Invalid request data", details |-> issues,
     body |-> "json", cacheControl |-> "none", contentType |-> "application/json"]
Respond500 ==
    [status |-> 500, error |-> DefaultMessage, details |-> {}, body |-> "json",
     cacheControl |-> "none", contentType |-> "application/json"]
\* route.ts, !response.ok: the backend's status and its message or the default
RespondBackendError(o) ==
    [status |-> o.status,
     error |-> (IF o.body = "json_message" THEN "backend message" ELSE DefaultMessage),
     details |-> {}, body |-> "json", cacheControl |-> "none",
     contentType |-> "application/json"]
\* Buffer.from(result.output, 'base64') and the 200 response.  Buffer.from
\* throws on an output that is no string and skips characters that are not
\* base64 instead of failing.  The headers hold Cache-Control only, and a
\* Response built from a Buffer gets no Content-Type of its own.
RespondResult_Lenient(o) ==
    [status |-> 200, error |-> "none", details |-> {}, body |-> "garbage",
     cacheControl |-> "public, max-age=31536000", contentType |-> "none"]
RespondResult(o) ==
    CASE o.body = "envelope" ->
            [status |-> 200, error |-> "none", details |-> {}, body |-> "image",
             cacheControl |-> "public, max-age=31536000", contentType |-> "none"]
      [] o.body = "envelope_bad_base64" ->
            [status |-> 200, error |-> "none", details |-> {}, body |-> "garbage",
             cacheControl |-> "public, max-age=31536000", contentType |-> "none"]
      [] OTHER -> Respond500

\* `if (attempt < maxRetries - 1)` in makeRunPodRequest
RetriesLeft_Always(a) == a <= maxRetries - 1
RetriesLeft(a) == a < maxRetries - 1
\* `attempt < maxRetries`, the for loop's condition
LoopContinues(a) == a < maxRetries

Done(resp) ==
    /\ srvPc' = "done"
    /\ httpResponse' = resp

\* POST is called: request.json(), requestSchema.parse, and for a valid body
\* the first fetch of the backend.
POST(b) ==
    /\ srvPc = "idle"
    /\ body' = b
    /\ attempt' = 0
    /\ lastError' = NoLastError
    /\ backendWaits' = <<>>
    /\ backendLog' = <<>>
    /\ UNCHANGED <<route, clientVars, parked, currentRequest>>
    /\ IF ~b.json
       THEN Done(Respond500) /\ UNCHANGED <<validatedData, backendCalls>>
       ELSE IF Issues(b) # {}
       THEN Done(Respond400(Issues(b))) /\ UNCHANGED <<validatedData, backendCalls>>
       ELSE /\ validatedData' = Parse(b)
            /\ srvPc' = "call"
            /\ backendCalls' = 1
            /\ httpResponse' = httpResponse

\* The backend fetch of makeRunPodRequest (README.md) settles.
BackendSettledRetry(o) ==
    /\ srvPc = "call"
    /\ route = "README"
    /\ backendLog' = LogAppend(backendLog, o)
    /\ UNCHANGED <<route, body, validatedData, attempt, backendCalls, clientVars, parked, currentRequest>>
    /\ IF BackendReturned(o)
       THEN /\ Done(RespondResult(o))
            /\ UNCHANGED <<lastError, backendWaits>>
       ELSE IF RetriesLeft(attempt)
       THEN /\ lastError' = ErrorOf(o, attempt + 1)
            /\ srvPc' = "sleep"
            /\ backendWaits' = Append(backendWaits, BACKEND_RETRY_DELAY)
            /\ httpResponse' = httpResponse
       ELSE /\ lastError' = ThrownFor(ErrorOf(o, attempt + 1))
            /\ Done(Respond500)
            /\ backendWaits' = backendWaits

\* sleep(3000) resolves; `continue` runs the for loop's attempt++ and test.
BackendSleepElapsed ==
    /\ srvPc = "sleep"
    /\ attempt' = attempt + 1
    /\ UNCHANGED <<route, body, validatedData, lastError, backendWaits, backendLog,
                   clientVars, parked, currentRequest>>
    /\ IF LoopContinues(attempt + 1)
       THEN /\ srvPc' = "call"
            /\ backendCalls' = Min(backendCalls + 1, MaxLog)
            /\ httpResponse' = httpResponse
       ELSE /\ Done(Respond500)
            /\ backendCalls' = backendCalls

\* The backend fetch of POST in src/app/api/generate/route.ts settles.
BackendSettledOnce(o) ==
    /\ srvPc = "call"
    /\ route = "route_ts"
    /\ backendLog' = LogAppend(backendLog, o)
    /\ UNCHANGED <<route, body, validatedData, attempt, lastError, backendCalls,
                   backendWaits, clientVars, parked, currentRequest>>
    /\ CASE o.status = 0 -> Done(Respond500)
         [] o.body = "not_json" -> Done(Respond500)
         [] o.status # 200 -> Done(RespondBackendError(o))
         [] OTHER -> Done(RespondResult(o))

BackendSettled ==
    \E o \in BackendOutcomes : BackendSettledRetry(o) \/ BackendSettledOnce(o)

ServerInit ==
    /\ page = "part_000"
    /\ component = "ImageGenerator"
    /\ ClientStart
    /\ route \in RouteVersions
    /\ ServerStart

ServerNext ==
    \/ \E b \in RequestBodies : POST(b)
    \/ BackendSettled
    \/ BackendSleepElapsed

ServerSpec == ServerInit /\ [][ServerNext]_vars

\* ------------------------------------------------------ two requests at once
\* `let lastError` and `let attempt` are declared inside makeRunPodRequest:
\* the invocation that resumes finds its own values, not the values of the
\* invocation that ran last.
ResumedLocal_Shared(own, running) == running
ResumedLocal(own, running) == own

\* The event loop runs the continuation of the other request: between two
\* awaits one invocation runs alone, and at an await the other may resume.
Switch ==
    /\ parked' = [srvPc |-> srvPc, body |-> body, validatedData |-> validatedData,
                  attempt |-> attempt, lastError |-> lastError,
                  backendCalls |-> backendCalls, backendWaits |-> backendWaits,
                  backendLog |-> backendLog, httpResponse |-> httpResponse]
    /\ currentRequest' = 3 - currentRequest
    /\ srvPc' = parked.srvPc
    /\ body' = parked.body
    /\ validatedData' = parked.validatedData
    /\ attempt' = ResumedLocal(parked.attempt, attempt)
    /\ lastError' = ResumedLocal(parked.lastError, lastError)
    /\ backendCalls' = parked.backendCalls
    /\ backendWaits' = parked.backendWaits
    /\ backendLog' = parked.backendLog
    /\ httpResponse' = parked.httpResponse
    /\ UNCHANGED <<route, clientVars>>

\* The request bodies and backend replies of the two-request runs.
ConcurrentBodies ==
    {b \in RequestBodies :
        \/ ~b.json
        \/ /\ b.prompt = Str("cat") /\ b.aspect_ratio = Str("16:9")
           /\ b.num_inference_steps = Undefined /\ b.accept = Undefined
           /\ b.guidance_scale \in {Undefined, Num(150)}}
ConcurrentOutcomes ==
    {o \in BackendOutcomes :
        \/ o.status = 0
        \/ o = [status |-> 500, body |-> "json_message"]
        \/ o.status = 200 /\ o.body \in {"envelope", "not_json"}}

ConcurrentInit ==
    /\ page = "part_000"
    /\ component = "ImageGenerator"
    /\ ClientStart
    /\ route = "README"
    /\ ServerStart

ConcurrentNext ==
    \/ \E b \in ConcurrentBodies : POST(b)
    \/ \E o \in ConcurrentOutcomes : BackendSettledRetry(o)
    \/ BackendSleepElapsed
    \/ Switch

ConcurrentSpec == ConcurrentInit /\ [][ConcurrentNext]_vars

\* ===================================================================== claims
RECURSIVE SumCounts(_, _)
SumCounts(counts, n) == IF n = 0 THEN 0 ELSE counts[n] + SumCounts(counts, n - 1)

\* revokeObjectURL calls made so far, over all handles
TotalRevokes == SumCounts(revokeCount, MaxImages)

\* a step that is the click on Generate
GenerateStarts == loading = FALSE /\ loading' = TRUE

\* a step in which the running generate action completes
ActionCompletes == pc = "fetch" /\ pc' = "idle"

\* C1: across generate actions, history selections and teardown, no
\* object-URL handle is passed to URL.revokeObjectURL more than once.
C1_NoHandleReleasedTwice == \A h \in Handles : revokeCount[h] <= 1

\* C2: after session teardown every handle referenced by a history record
\* has been released.
C2_TeardownReleasesHistory ==
    ~mounted => \A i \in DOMAIN generatedImages :
                    revokeCount[generatedImages[i].url] >= 1

\* C3: three images generated in sequence and nothing else: exactly two
\* releases before teardown, the third handle is released at teardown and
\* not before.
C3_ThreeImagesTwoReleases ==
    (created = 3 /\ ~disturbed /\ pc = "idle") =>
        /\ mounted => (TotalRevokes = 2 /\ revokeCount[3] = 0)
        /\ ~mounted => revokeCount[3] = 1

C5_AtMostThreeRequests == requests <= 3

\* the completing step's requests were answered 504, ..., 504, 200
C6_Answered ==
    /\ ActionCompletes
    /\ Len(requestLog') <= 3
    /\ requestLog'[Len(requestLog')] = 200
    /\ \A i \in 1..(Len(requestLog') - 1) : requestLog'[i] = 504

\* the completing step is a success after one wait of 1000 ms per 504
C6_Succeeded ==
    /\ lastResult' = "success"
    /\ waits' = [i \in 1..(Len(requestLog') - 1) |-> 1000]
    /\ requests' = Len(requestLog')
    /\ created' = created + 1
    /\ mounted => (imageUrl' = created' /\ error' = NoError /\ ~loading')

\* C6: a generate action whose requests were answered 504, ..., 504, 200
\* (k requests, k <= 3) succeeds on request k after exactly k-1 waits, shows
\* the image built from that response and no error.
C6_SuccessAfterTimeouts == [][C6_Answered => C6_Succeeded]_vars

\* C6, the case: 504, 504, 200 ended in success after two waits.
C6_Witness ==
    /\ pc = "idle" /\ requestLog = <<504, 504, 200>>
    /\ lastResult = "success" /\ waits = <<1000, 1000>>
    /\ mounted /\ imageUrl = created /\ error = NoError

\* C7: a request that ends in anything but a 504 response is the last
\* request of its action (nothing is pending or waited for after it), and a
\* failure is shown as the UI error.
C7_Non504EndsAction ==
    /\ \A i \in DOMAIN requestLog :
          requestLog[i] # 504 => (i = Len(requestLog) /\ pc = "idle")
    /\ (pc = "idle" /\ mounted /\ lastResult = "failed" /\ loading = FALSE
          /\ requestLog # <<>>) => error # NoError

\* C8: three consecutive 504 responses in one action end it, with the
\* timeout message as the UI error, after exactly two waits.
C8_TimeoutAfterThree504 ==
    (\E i \in DOMAIN requestLog :
        /\ i + 2 <= Len(requestLog)
        /\ requestLog[i] = 504 /\ requestLog[i + 1] = 504 /\ requestLog[i + 2] = 504)
    => /\ pc = "idle"
       /\ requestLog = <<504, 504, 504>>
       /\ lastResult = "failed"
       /\ waits = <<1000, 1000>>
       /\ requests = 3
       /\ mounted => (error = TimeoutMessage /\ ~loading)

\* C8, the case: the third 504 has arrived.
C8_Witness ==
    /\ requestLog = <<504, 504, 504>> /\ pc = "idle" /\ mounted
    /\ error = TimeoutMessage /\ waits = <<1000, 1000>>

\* C9: if every request settles, every generate action of a live session
\* completes (Success or Failed) and the loading flag is false again; an
\* action cannot stay in Generating for ever.
C9_ActionCompletes ==
    (mounted /\ pc # "idle") ~> (~mounted \/ (pc = "idle" /\ ~loading))

\* C10: for one HTTP request the backend is called at most 3 times; every
\* failed attempt (transport throw or non-success status) uses up exactly
\* one attempt, and nothing is called after an attempt that returned.
C10_AtMostThreeBackendCalls ==
    /\ backendCalls <= 3
    /\ backendCalls = Len(backendLog) + (IF srvPc = "call" THEN 1 ELSE 0)
    /\ (route = "README" /\ srvPc = "call") => attempt = Len(backendLog)
    /\ (route = "README" /\ srvPc = "sleep") => attempt = Len(backendLog) - 1
    /\ \A i \in DOMAIN backendLog :
          BackendReturned(backendLog[i]) => (i = Len(backendLog) /\ srvPc = "done")

\* C10, the case: a throw, then a non-success status, then a reply that
\* returned, three calls in all.
C10_Witness ==
    /\ srvPc = "done" /\ backendCalls = 3 /\ Len(backendLog) = 3
    /\ backendLog[1].status = 0
    /\ backendLog[2].status = 500
    /\ BackendReturned(backendLog[3])
    /\ httpResponse.status = 200

\* C11: when the backend first returns a payload on attempt k, the request
\* is answered from that payload after exactly k - 1 waits, each of the same
\* fixed delay; there is no wait after the reply that returned and none
\* after the last failed attempt, so three failures give exactly two waits.
C11_WaitsBetweenAttempts ==
    /\ \A i \in DOMAIN backendWaits : backendWaits[i] = BACKEND_RETRY_DELAY
    /\ (srvPc = "done" /\ backendLog # <<>>
            /\ BackendReturned(backendLog[Len(backendLog)]))
          => /\ Len(backendWaits) = Len(backendLog) - 1
             /\ httpResponse = RespondResult(backendLog[Len(backendLog)])
    /\ (route = "README" /\ srvPc = "done" /\ backendLog # <<>>
            /\ ~BackendReturned(backendLog[Len(backendLog)]))
          => /\ Len(backendLog) = 3
             /\ backendWaits = <<BACKEND_RETRY_DELAY, BACKEND_RETRY_DELAY>>
    /\ srvPc = "sleep"
          => /\ ~BackendReturned(backendLog[Len(backendLog)])
             /\ Len(backendWaits) = Len(backendLog)
             /\ Len(backendLog) < 3
    /\ srvPc = "call" => Len(backendWaits) = Len(backendLog)

\* C11, the case: two failed attempts, then a reply that returned, answered
\* after two waits of the fixed delay.
C11_Witness ==
    /\ srvPc = "done" /\ Len(backendLog) = 3
    /\ backendLog[1].status = 429
    /\ backendLog[2].status = 0
    /\ backendLog[3].body = "envelope"
    /\ backendWaits = <<BACKEND_RETRY_DELAY, BACKEND_RETRY_DELAY>>
    /\ httpResponse.body = "image"

\* The message of the error one failed attempt leaves behind.
C12_Message(o) ==
    CASE o.status = 0 -> "fetch failed"
      [] o.body = "not_json" -> JsonParseMessage
      [] o.body = "json_message" -> "backend message"
      [] OTHER -> DefaultMessage

\* C12: when all three attempts fail, the error makeRunPodRequest throws to
\* POST is the one of the third attempt and carries its message, whatever
\* the first two attempts failed with.
C12_RaisesThirdError ==
    (route = "README" /\ srvPc = "done" /\ Len(backendLog) = 3
        /\ ~BackendReturned(backendLog[3]))
      => /\ lastError.kind = "Error"
         /\ lastError.at = 3
         /\ lastError.msg = C12_Message(backendLog[3])

\* C12, the case: a transport throw, an unparsable reply and a non-success
\* status with a message, three distinct errors.
C12_Witness ==
    /\ route = "README" /\ srvPc = "done" /\ Len(backendLog) = 3
    /\ backendLog[1].status = 0
    /\ backendLog[2].body = "not_json"
    /\ backendLog[3].body = "json_message"
    /\ lastError.msg = "backend message"

\* C13: when the backend call ends in failure (a transport throw or a
\* non-success status on the last attempt), the response carries the status
\* the backend last reported, 500 when it reported none, and the backend's
\* last message as its error.
C13_BackendFailureSurfaced ==
    (srvPc = "done" /\ backendLog # <<>>
        /\ backendLog[Len(backendLog)].status # 200)
      => /\ httpResponse.status =
               (IF backendLog[Len(backendLog)].status = 0
                THEN 500 ELSE backendLog[Len(backendLog)].status)
         /\ backendLog[Len(backendLog)].body = "json_message"
               => httpResponse.error = "backend message"

\* C14: a reply with a success status is the last backend attempt of its
\* request, whatever its body: only throws of the transport and non-success
\* statuses are followed by another attempt.
C14_NoAttemptAfterSuccessStatus ==
    \A i \in DOMAIN backendLog :
        backendLog[i].status = 200 => (i = Len(backendLog) /\ srvPc = "done")

\* C15: a successful reply whose output is a string that is not base64 is
\* answered with a failure, never with 200 and an image body.
C15_BadBase64IsFailure ==
    (srvPc = "done" /\ backendLog # <<>>
        /\ backendLog[Len(backendLog)].body = "envelope_bad_base64")
      => (httpResponse.status # 200 /\ httpResponse.body = "json")

\* C16: a successful reply whose envelope has no output field is answered
\* with 500 and the generic error 'Failed to generate image', never 200.
C16_MissingOutputIs500 ==
    (srvPc = "done" /\ backendLog # <<>>
        /\ backendLog[Len(backendLog)].body = "envelope_no_output")
      => /\ httpResponse.status = 500
         /\ httpResponse.error = "Failed to generate image"
         /\ httpResponse.body = "json"
         /\ httpResponse.cacheControl = "none"

\* C16, the case: the second attempt returns an envelope without output.
C16_Witness ==
    /\ route = "README" /\ srvPc = "done" /\ Len(backendLog) = 2
    /\ backendLog[2].body = "envelope_no_output"
    /\ httpResponse.status = 500

\* The request body satisfies requestSchema.
C17_BodyValid ==
    /\ body.json
    /\ body.prompt.t = "string" /\ body.prompt.s # ""
    /\ body.aspect_ratio.t = "string" /\ body.aspect_ratio.s # ""
    /\ \A v \in {body.num_inference_steps, body.guidance_scale} :
          v.t = "undefined" \/ (v.t = "number" /\ v.n >= 0 /\ v.n <= 100)

\* C17: the backend is called only for a request body that passed schema
\* validation; a request that fails validation is answered with no backend
\* call at all.
C17_ValidationBeforeBackend ==
    /\ (backendCalls > 0 \/ backendLog # <<>> \/ srvPc \in {"call", "sleep"})
          => (C17_BodyValid /\ validatedData = Parse(body))
    /\ (srvPc = "done" /\ ~C17_BodyValid)
          => (backendCalls = 0 /\ backendLog = <<>> /\ backendWaits = <<>>
                /\ validatedData = NoData)

\* C17, the case: the first backend call of a validated request is in flight.
C17_Witness ==
    /\ srvPc = "call" /\ backendCalls = 1 /\ backendLog = <<>>
    /\ body.prompt = Str("cat") /\ body.guidance_scale = Num(100)

\* C18: a body with a non-empty prompt and aspect_ratio and neither number
\* validates, and the validated request and the body sent to the backend
\* have guidance_scale = 27 and num_inference_steps = 27; a number supplied
\* in range is kept as it is.
C18_DefaultsApplied ==
    (srvPc # "idle" /\ body.json /\ StringMin1(body.prompt)
        /\ StringMin1(body.aspect_ratio))
      => /\ (body.guidance_scale.t = "undefined"
                /\ body.num_inference_steps.t = "undefined")
               => /\ backendCalls >= 1
                  /\ validatedData.guidance_scale = 27
                  /\ validatedData.num_inference_steps = 27
                  /\ BackendRequestBody(validatedData).input.guidance_scale = 27
                  /\ BackendRequestBody(validatedData).input.num_inference_steps = 27
                  /\ BackendRequestBody(validatedData).input.prompt = body.prompt.s
                  /\ BackendRequestBody(validatedData).input.aspect_ratio
                        = body.aspect_ratio.s
         /\ (Issues(body) = {} /\ body.guidance_scale.t = "number")
               => /\ validatedData.guidance_scale = body.guidance_scale.n
                  /\ BackendRequestBody(validatedData).input.guidance_scale
                        = body.guidance_scale.n
         /\ (Issues(body) = {} /\ body.num_inference_steps.t = "number")
               => /\ validatedData.num_inference_steps = body.num_inference_steps.n
                  /\ BackendRequestBody(validatedData).input.num_inference_steps
                        = body.num_inference_steps.n

\* C18, the case: both numbers omitted, the backend call carries 27 and 27.
C18_Witness ==
    /\ srvPc = "call"
    /\ body.guidance_scale = Undefined /\ body.num_inference_steps = Undefined
    /\ BackendRequestBody(validatedData).input.guidance_scale = 27
    /\ BackendRequestBody(validatedData).input.num_inference_steps = 27

\* C19: a guidance_scale or num_inference_steps that is a number below 0 or
\* above 100 fails validation: the answer is 400 'Invalid request data'
\* with details naming the field, and nothing is clamped and sent on.
C19_OutOfRangeRejected ==
    (srvPc # "idle" /\ body.json)
      => /\ (body.num_inference_steps.t = "number"
                /\ (body.num_inference_steps.n < 0 \/ body.num_inference_steps.n > 100))
               => /\ srvPc = "done"
                  /\ httpResponse.status = 400
                  /\ httpResponse.error = "Invalid request data"
                  /\ "num_inference_steps" \in httpResponse.details
                  /\ backendCalls = 0 /\ validatedData = NoData
         /\ (body.guidance_scale.t = "number"
                /\ (body.guidance_scale.n < 0 \/ body.guidance_scale.n > 100))
               => /\ srvPc = "done"
                  /\ httpResponse.status = 400
                  /\ httpResponse.error = "Invalid request data"
                  /\ "guidance_scale" \in httpResponse.details
                  /\ backendCalls = 0 /\ validatedData = NoData

\* C19, the case: guidance_scale 150 and num_inference_steps -1 in a body
\* that is otherwise valid.
C19_Witness ==
    /\ srvPc = "done"
    /\ body.prompt = Str("cat") /\ body.aspect_ratio = Str("16:9")
    /\ body.guidance_scale = Num(150) /\ body.num_inference_steps = Num(-1)
    /\ httpResponse.status = 400
    /\ httpResponse.details = {"guidance_scale", "num_inference_steps"}

\* C20: every request rejected for malformed input, a schema violation or a
\* body that is not JSON, is answered with 400 and a details list that is
\* not empty, and causes no backend call.
C20_MalformedIs400 ==
    (srvPc = "done" /\ (~body.json \/ Issues(body) # {}))
      => /\ httpResponse.status = 400
         /\ httpResponse.details # {}
         /\ backendCalls = 0

\* The accept of a validated request, "undefined" when it has none.
C21_AcceptOf(v) == IF "accept" \in DOMAIN v THEN v.accept ELSE "undefined"

\* C21: a body whose accept is present and is neither 'image/jpeg' nor
\* 'image/png' fails validation with 400, and a validated request whose
\* body had no accept has accept 'image/jpeg'.
C21_AcceptValidated ==
    (srvPc # "idle" /\ body.json)
      => /\ (body.accept.t # "undefined"
                /\ body.accept \notin {Str("image/jpeg"), Str("image/png")})
               => (srvPc = "done" /\ httpResponse.status = 400
                      /\ backendCalls = 0)
         /\ (Issues(body) = {} /\ body.accept.t = "undefined")
               => C21_AcceptOf(validatedData) = "image/jpeg"

\* C22: a 200 response has the image bytes as its body, a Content-Type that
\* is an image media type, and Cache-Control 'public, max-age=31536000'.
C22_SuccessResponse ==
    (srvPc = "done" /\ backendLog # <<>>
        /\ backendLog[Len(backendLog)] = [status |-> 200, body |-> "envelope"])
      => /\ httpResponse.status = 200
         /\ httpResponse.body = "image"
         /\ httpResponse.cacheControl = "public, max-age=31536000"
         /\ httpResponse.contentType \in {"image/jpeg", "image/png"}

\* A step that starts a generate action: the first fetch of an action.
C23_Starts == fetchId' # fetchId /\ requests' = 1
C23_StartGuard ==
    C23_Starts => (~loading /\ pc = "idle" /\ settings.prompt # ""
                     /\ loading' /\ pc' = "fetch")

\* C23: at most one generate action is in flight: an action starts only
\* when loading is false and the prompt is not empty, and loading is true
\* from its start until it has completed, retries and waits included.
C23_OneActionInFlight ==
    /\ [](pc # "idle" => loading)
    /\ []((mounted /\ pc = "idle") => ~loading)
    /\ [][C23_StartGuard]_vars

\* C23, the case: an action in its wait between two requests.
C23_Witness == pc = "sleep" /\ loading /\ requests = 1 /\ waits = <<RETRY_DELAY>>

\* A step in which a generate action of the component with history succeeds.
C24_Completes == mounted /\ component = "ImageGenerator" /\ created' = created + 1
C24_RecordCreated ==
    C24_Completes
      => /\ generatedImages' =
               <<[url |-> created', prompt |-> sent.prompt, timestamp |-> now',
                  settings |-> sent]>> \o generatedImages
         /\ imageUrl' = created'
         /\ bodiesSent[Len(bodiesSent)] = ClientRequestBody(sent)

\* C24: a successful generate action creates a record of the new handle,
\* the prompt, the current time and the settings that were sent (whatever
\* the form holds by then), puts it first in history and displays it.
C24_RecordOnSuccess == [][C24_RecordCreated]_vars

\* C24, the case: the record just created holds the settings sent, the form
\* holds another guidance scale.
C24_Witness ==
    /\ pc = "idle" /\ lastResult = "success" /\ generatedImages # <<>>
    /\ generatedImages[1].settings = sent
    /\ generatedImages[1].settings.guidanceScale # settings.guidanceScale
    /\ generatedImages[1].timestamp = now
    /\ imageUrl = generatedImages[1].url

C25_HistoryStep ==
    \/ generatedImages' = generatedImages
    \/ /\ created' = created + 1
       /\ Len(generatedImages') = Len(generatedImages) + 1
       /\ Tail(generatedImages') = generatedImages
       /\ generatedImages'[1].url = created'
C25_NewestFirst ==
    \A i, j \in DOMAIN generatedImages :
        i < j => /\ generatedImages[i].url > generatedImages[j].url
                 /\ generatedImages[i].timestamp >= generatedImages[j].timestamp

\* C25: history changes only when a generation that just succeeded is put
\* in front of it; no record is removed, moved or changed, so history is
\* always in newest-first order.
C25_HistoryPrependOnly == []C25_NewestFirst /\ [][C25_HistoryStep]_vars

\* C25, the case: A then B were generated and A was selected; history is
\* [B, A].
C25_Witness ==
    /\ Len(generatedImages) = 2
    /\ generatedImages[1].url = 2 /\ generatedImages[2].url = 1
    /\ imageUrl = 1 /\ pc = "idle"

C26_SelectFrame ==
    \A i \in 1..MaxImages :
        SelectHistory(i)
          => /\ imageUrl' = generatedImages[i].url
             /\ settings' = generatedImages[i].settings
             /\ generatedImages' = generatedImages
             /\ revokeCount' = revokeCount
             /\ revokedNow' = <<>>

C27_Fails == mounted /\ pc # "idle" /\ pc' = "idle" /\ created' = created
\* The messages a failure after the last logged request can have.
C27_Message ==
    CASE requestLog'[Len(requestLog')] = 504 /\ page = "part_000" -> {TimeoutMessage}
      [] requestLog'[Len(requestLog')] = 0 -> {FetchFailedMessage}
      [] OTHER -> {ServerMessage, DefaultMessage, JsonParseMessage}
C27_FailureFrame ==
    C27_Fails
      => /\ generatedImages' = generatedImages
         /\ imageUrl' = imageUrl
         /\ ~loading'
         /\ error' \in {TimeoutMessage, FetchFailedMessage, ServerMessage,
                        DefaultMessage, JsonParseMessage}
         /\ Len(requestLog') < MaxLog => error' \in C27_Message

\* C27: a generate action that fails leaves history and the displayed image
\* as they are, creates no handle, and sets the UI error to the message of
\* the failure.
C27_FailureKeepsState == [][C27_FailureFrame]_vars

\* C27, the case: 504 retries exhausted with an image on display.
C27_Witness ==
    /\ mounted /\ pc = "idle" /\ lastResult = "failed"
    /\ error = TimeoutMessage /\ requestLog = <<504, 504, 504>>
    /\ imageUrl # 0 /\ created = 1

\* C28: every request of one generate action carries the body built from
\* the settings passed at submission, whatever happens to the form between
\* the attempts.
C28_SameBodyEveryRequest ==
    \A i \in DOMAIN bodiesSent : bodiesSent[i] = ClientRequestBody(sent)

\* C28, the case: a retry was sent after the form was changed.
C28_Witness ==
    /\ pc = "fetch" /\ Len(bodiesSent) = 2
    /\ settings.guidanceScale # sent.guidanceScale
    /\ bodiesSent[2].guidance_scale = sent.guidanceScale

\* A step within a generate action that does not complete it.
C30_InFlight == mounted /\ pc # "idle" /\ pc' # "idle"

\* C30: while a generate action is in flight, the displayed image and the
\* form settings are not changed by a history selection.
C30_NoSelectionInFlight ==
    [][C30_InFlight => \A i \in 1..MaxImages : ~SelectHistory(i)]_vars

\* What one request shows when nothing but its own body and the replies to
\* its own backend calls decided it.
C29_OnItsOwn(h) ==
    /\ Len(h.backendLog) <= 3 /\ h.backendCalls <= 3
    /\ h.backendCalls = Len(h.backendLog) + (IF h.srvPc = "call" THEN 1 ELSE 0)
    /\ h.srvPc = "call" => h.attempt = Len(h.backendLog)
    /\ h.srvPc = "sleep" => h.attempt = Len(h.backendLog) - 1
    /\ Len(h.backendWaits) =
          Len(h.backendLog) - (IF h.srvPc = "done" /\ h.backendLog # <<>> THEN 1 ELSE 0)
    /\ (h.backendLog # <<>> /\ ~BackendReturned(h.backendLog[Len(h.backendLog)]))
          => /\ h.lastError.at = Len(h.backendLog)
             /\ h.lastError.msg = C12_Message(h.backendLog[Len(h.backendLog)])
                    \/ h.lastError.msg = "undefined"
    /\ h.srvPc = "done"
          => h.httpResponse =
                (IF ~h.body.json THEN Respond500
                 ELSE IF Issues(h.body) # {} THEN Respond400(Issues(h.body))
                 ELSE IF BackendReturned(h.backendLog[Len(h.backendLog)])
                      THEN RespondResult(h.backendLog[Len(h.backendLog)])
                      ELSE Respond500)
    /\ (h.srvPc = "done" /\ h.backendLog # <<>>
            /\ ~BackendReturned(h.backendLog[Len(h.backendLog)]))
          => Len(h.backendLog) = 3

\* C29: of two requests handled at once each has its own attempt counter
\* and last error and so its own three backend attempts, neither waits for
\* the other's sleep, and each response is decided by the request's own
\* body and the replies to its own calls.
C29_RequestsIndependent ==
    /\ C29_OnItsOwn(parked)
    /\ C29_OnItsOwn([srvPc |-> srvPc, body |-> body, validatedData |-> validatedData,
                     attempt |-> attempt, lastError |-> lastError,
                     backendCalls |-> backendCalls, backendWaits |-> backendWaits,
                     backendLog |-> backendLog, httpResponse |-> httpResponse])
    /\ (parked.srvPc = "sleep" /\ srvPc = "call")
          => ENABLED (\E o \in ConcurrentOutcomes : BackendSettledRetry(o))

\* C29, the case: one request is on its third attempt while the other
\* sleeps after its first failure.
C29_Witness ==
    /\ srvPc = "call" /\ attempt = 2 /\ Len(backendLog) = 2
    /\ parked.srvPc = "sleep" /\ parked.attempt = 0 /\ Len(parked.backendLog) = 1

\* C31: while the session is alive the handle on display and the handle of
\* every record of the history have not been released, also after a
\* generate action that failed.
C31_NoUseAfterRelease ==
    mounted
      => /\ imageUrl # 0 => revokeCount[imageUrl] = 0
         /\ \A i \in DOMAIN generatedImages :
               revokeCount[generatedImages[i].url] = 0

\* C32: after a teardown that came while a generate action was in flight,
\* no handle is left unreleased: a handle that neither the display nor the
\* history holds has been released.
C32_NoLeakAfterTeardown ==
    (~mounted /\ pc = "idle")
      => \A h \in 1..created :
            (h # imageUrl /\ \A i \in DOMAIN generatedImages :
                                generatedImages[i].url # h)
              => revokeCount[h] > 0

\* C33: the image on display is none or the handle of a record that is in
\* the history.
C33_DisplayedIsInHistory ==
    component = "ImageGenerator"
      => \/ imageUrl = 0
         \/ \E i \in DOMAIN generatedImages : generatedImages[i].url = imageUrl

\* C33, the case: three records, the oldest on display.
C33_Witness ==
    /\ component = "ImageGenerator" /\ Len(generatedImages) = 3
    /\ imageUrl = generatedImages[3].url /\ mounted

\* A step that changes the UI error.
C35_ErrorStep ==
    error' # error
      => \/ error' = NoError /\ pc = "idle" /\ pc' = "fetch"
         \/ error' # NoError /\ pc # "idle" /\ pc' = "idle" /\ created' = created
C35_SelectKeepsError == \A i \in 1..MaxImages : SelectHistory(i) => error' = error

\* C35: the UI error is cleared when a generate action starts and set only
\* when one fails: with no action in flight it is set exactly when the last
\* completed action failed, and selecting a record does not change it.
C35_ErrorTracksLastAction ==
    /\ []((mounted /\ pc = "idle") => (error # NoError <=> lastResult = "failed"))
    /\ []((mounted /\ pc # "idle") => error = NoError)
    /\ [][C35_ErrorStep /\ C35_SelectKeepsError]_vars

\* C35, the case: an action failed, then a later one succeeded and a record
\* was selected; the error is clear.
C35_Witness ==
    /\ mounted /\ pc = "idle" /\ lastResult = "success" /\ error = NoError
    /\ disturbed /\ Len(generatedImages) = 2 /\ imageUrl = generatedImages[2].url
    /\ requestLog = <<504, 200>>

\* C34: every request the UI sends passes the validation of the server,
\* whatever was edited in the form or restored from the history before: the
\* prompt is not empty, aspect_ratio is one of the options, guidance_scale
\* and num_inference_steps are within 0..100, so no answer is a 400.
C34_UiRequestsValid ==
    /\ settings.aspectRatio \in AspectRatioOptions
    /\ settings.guidanceScale \in 0..100
    /\ settings.numInferenceSteps \in 0..100
    /\ \A i \in DOMAIN bodiesSent :
          /\ bodiesSent[i].prompt # ""
          /\ bodiesSent[i].aspect_ratio \in AspectRatioOptions
          /\ bodiesSent[i].guidance_scale \in 0..100
          /\ bodiesSent[i].num_inference_steps \in 0..100
          /\ Issues(ReceivedBody(bodiesSent[i])) = {}

\* C34, the case: a request sent from settings restored from the history,
\* with both sliders at their maximum and the last aspect ratio.
C34_Witness ==
    /\ pc = "fetch" /\ created = 1 /\ disturbed
    /\ sent = generatedImages[1].settings
    /\ bodiesSent = <<[prompt |-> "cat", num_inference_steps |-> 100,
                       guidance_scale |-> 100, aspect_ratio |-> "9:21",
                       accept |-> "image/jpeg"]>>

\* C36: the body of a request does not depend on seed: it has no seed and
\* is the body any other seed would have given; the seed sent along lives
\* in the form and in the settings of the record only.
C36_BodyIgnoresSeed ==
    \A i \in DOMAIN bodiesSent :
        /\ "seed" \notin DOMAIN bodiesSent[i]
        /\ \A sd \in Seeds :
              bodiesSent[i] = ClientRequestBody([sent EXCEPT !.seed = sd])

\* C36, the case: two generate actions whose settings differ in seed only;
\* the body of the second is the body the first would send.
C36_Witness ==
    /\ pc = "idle" /\ lastResult = "success" /\ Len(generatedImages) = 2
    /\ generatedImages[1].settings.seed # generatedImages[2].settings.seed
    /\ generatedImages[1].settings =
          [generatedImages[2].settings EXCEPT !.seed = generatedImages[1].settings.seed]
    /\ bodiesSent = <<ClientRequestBody(generatedImages[2].settings)>>

====
